---- MODULE Spec2Model ----
(***************************************************************************)
(* SmartSlot booking backend: the booking store, the availability store    *)
(* and the request handlers that read and write them.                      *)
(*                                                                         *)
(* Representation.  A calendar date 'YYYY-MM-DD' is its day number (the    *)
(* string order the code uses is the order of day numbers); a zero-padded  *)
(* time 'HH:MM' is its minute of the day (same remark).  `now` is the      *)
(* absolute instant in minutes, UTC; `tz` is the server's offset from UTC  *)
(* in minutes.  A handler is cut at its awaits on the database: each step  *)
(* is one read or one write of MongoDB together with the synchronous code  *)
(* around it; consecutive reads with no write between them are one step.   *)
(***************************************************************************)
EXTENDS Integers, Sequences, FiniteSets, TLC

VARIABLES
  bookings,       \* the bookings collection: a set of documents
  windows,        \* the availabledates collection: a set of documents
  nextBookingId,  \* next _id handed to a Booking document
  nextWindowId,   \* next _id handed to an AvailableDate document
  now,            \* the clock, minutes since day 0 00:00 UTC
  ticks,          \* number of clock advances so far
  tz,             \* server time zone, minutes east of UTC
  req             \* the requests in flight, one per connection

vars == <<bookings, windows, nextBookingId, nextWindowId, now, ticks, tz, req>>

-----------------------------------------------------------------------------
(* Bounds of the model *)

MaxBookings == 2
MaxWindows == 3
MaxTicks == 2
MaxBulk == 2

(* Program constants *)

CancelCutoffHours == 2
CheckInWindowMinutes == 30
MaxAdvanceBookingDays == 365
MaxRefCounter == 999
DefaultSlotDuration == 30
MinSlotDuration == 15
MaxSlotDuration == 120

MinutesPerDay == 24 * 60

Conns == {1, 2}
Statuses == {"pending", "confirmed", "cancelled", "completed", "no-show"}

NoTime == -1        \* an unset Date field
NoReason == ""      \* an absent (falsy) reason
NoRef == <<0, 0, 0>>

T0900 == 9 * 60
T0930 == 9 * 60 + 30
T1000 == 10 * 60
StartNow == MinutesPerDay + 8 * 60 + 30     \* day 1, 08:30 UTC

-----------------------------------------------------------------------------
(* DateUtils *)

getCurrentDate == now \div MinutesPerDay

getCurrentTime == (now + tz) % MinutesPerDay

isPastDate(date) == date < getCurrentDate

isToday(date) == date = getCurrentDate

isPastTimeSlot(date, timeSlot) ==
  IF ~isToday(date) THEN isPastDate(date) ELSE timeSlot <= getCurrentTime

getDateAfterDays(days) == (now \div MinutesPerDay) + days

isWithinBookingLimit(date) == date <= getDateAfterDays(MaxAdvanceBookingDays)

RECURSIVE SlotsFrom(_, _, _)
SlotsFrom(currentMinutes, endMinutes, duration) ==
  IF currentMinutes < endMinutes
  THEN <<currentMinutes>> \o SlotsFrom(currentMinutes + duration, endMinutes, duration)
  ELSE <<>>

generateTimeSlots(startTime, endTime, duration) == SlotsFrom(startTime, endTime, duration)

Range(s) == {s[i] : i \in 1..Len(s)}

(* DateUtils.generateTimeSlots over "HH:MM" strings; a string is the pair  *)
(* of its hour and its minute field                                        *)
ParseTime(str) == str[1] * 60 + str[2]

FormatTime(minutes) == <<minutes \div 60, minutes % 60>>

RECURSIVE SlotStringsFromInclusive(_, _, _)
SlotStringsFromInclusive(currentMinutes, endMinutes, duration) ==
  IF currentMinutes <= endMinutes
  THEN <<FormatTime(currentMinutes)>>
         \o SlotStringsFromInclusive(currentMinutes + duration, endMinutes, duration)
  ELSE <<>>

RECURSIVE SlotStringsFrom(_, _, _)
SlotStringsFrom(currentMinutes, endMinutes, duration) ==
  IF currentMinutes < endMinutes
  THEN <<FormatTime(currentMinutes)>>
         \o SlotStringsFrom(currentMinutes + duration, endMinutes, duration)
  ELSE <<>>

DateUtils_generateTimeSlots(startTime, endTime, duration) ==
  SlotStringsFrom(ParseTime(startTime), ParseTime(endTime), duration)

(* AvailableDate model *)

isValidTimeSlot(w, timeSlot) ==
  timeSlot \in Range(generateTimeSlots(w.startTime, w.endTime, w.slotDuration))

(* Booking model *)

bookingDateTime(b) == b.date * MinutesPerDay + b.timeSlot - tz

LiveAt(date, timeSlot, exceptId) ==
  {b \in bookings : /\ b.date = date
                    /\ b.timeSlot = timeSlot
                    /\ b.status # "cancelled"
                    /\ b.id # exceptId}

RefInUse(ref) == \E b \in bookings : b.bookingReference = ref

(* The do/while loop of generateBookingReference from `counter` on: it     *)
(* breaks at the first counter whose reference no booking has, and when    *)
(* every counter up to MaxRefCounter is taken it leaves with the reference *)
(* it built last, the one of MaxRefCounter.                                *)
RefLoop(dateStr, timeStr, counter) ==
  LET unused == {n \in counter..MaxRefCounter : ~RefInUse(<<dateStr, timeStr, n>>)}
  IN  IF unused # {}
      THEN <<dateStr, timeStr, CHOOSE n \in unused : \A m \in unused : n <= m>>
      ELSE <<dateStr, timeStr, MaxRefCounter>>

(* a counter that starts at 2 *)
generateBookingReferenceFromTwo == RefLoop(getCurrentDate, getCurrentTime, 2)

generateBookingReference == RefLoop(getCurrentDate, getCurrentTime, 1)

(* The unique indexes of the bookings collection, as seen by a write that   *)
(* leaves document `id` with the given key.                                 *)
SlotIndexHitNone(date, timeSlot, id) == FALSE

(* a partial index over the bookings that are not cancelled *)
SlotIndexHitPartial(date, timeSlot, id) ==
  \E b \in bookings :
    b.id # id /\ b.date = date /\ b.timeSlot = timeSlot /\ b.status # "cancelled"

SlotIndexHit(date, timeSlot, id) ==
  \E b \in bookings : b.id # id /\ b.date = date /\ b.timeSlot = timeSlot

RefIndexHitNone(ref, id) == FALSE

RefIndexHit(ref, id) ==
  \E b \in bookings : b.id # id /\ b.bookingReference = ref

DateIndexHitNone(date, id) == FALSE

DateIndexHit(date, id) ==
  \E w \in windows : w.id # id /\ w.date = date

-----------------------------------------------------------------------------
(* Responses: HTTP status and message *)

Resp(code, msg) == [code |-> code, msg |-> msg]

NoResp == Resp(0, "")

NoWindow ==
  [id |-> 0, date |-> 0, startTime |-> 0, endTime |-> 0, slotDuration |-> 0,
   isActive |-> FALSE]

Idle ==
  [pc |-> "idle", op |-> "", bid |-> 0, date |-> 0, timeSlot |-> NoTime,
   modDate |-> FALSE, modTimeSlot |-> FALSE, ref |-> NoRef,
   setStatus |-> "", setCancelledAt |-> NoTime, setReason |-> NoReason,
   setCheckedInAt |-> NoTime, win |-> NoWindow, wmod |-> {}, items |-> <<>>,
   created |-> <<>>, errors |-> <<>>, reason |-> NoReason, patch |-> <<>>,
   body |-> <<>>, res |-> NoResp]

(* A new request takes the first free connection: connections are          *)
(* interchangeable.                                                         *)
Free(c) ==
  /\ req[c].pc = "idle"
  /\ \A k \in Conns : k < c => req[k].pc # "idle"

(* A handler sends its response in the step that ends it; the record of    *)
(* that response stays on the connection for one step, until Respond.      *)
Quiet == \A c \in Conns : req[c].pc # "done"

InFlight(ops) ==
  Cardinality({c \in Conns : req[c].op \in ops /\ req[c].pc \notin {"idle", "done"}})

Done(c, code, msg) ==
  [Idle EXCEPT !.pc = "done", !.op = req[c].op, !.bid = req[c].bid,
               !.date = req[c].date, !.timeSlot = req[c].timeSlot,
               !.modDate = req[c].modDate, !.modTimeSlot = req[c].modTimeSlot,
               !.res = Resp(code, msg)]

Finish(c, code, msg) == req' = [req EXCEPT ![c] = Done(c, code, msg)]

(* the response has been sent: the connection is free again *)
Respond(c) ==
  /\ req[c].pc = "done"
  /\ req' = [req EXCEPT ![c] = Idle]
  /\ UNCHANGED <<bookings, windows, nextBookingId, nextWindowId, now, ticks, tz>>

-----------------------------------------------------------------------------
(* errorHandler: the response to an error thrown inside a handler *)

MsgBooked == "This time slot is already booked"

DuplicateKeyResp(field) ==
  IF field = "bookingReference" THEN Resp(400, "Booking reference already exists")
  ELSE IF field = "date_timeSlot" THEN Resp(400, MsgBooked)
  ELSE Resp(400, "Duplicate field value: date")

-----------------------------------------------------------------------------
(* BookingController.createBooking / createSimpleBooking *)

BookingLegality(date, timeSlot) ==
  IF isPastDate(date) THEN Resp(400, "Cannot book dates in the past")
  ELSE IF isPastTimeSlot(date, timeSlot) THEN Resp(400, "Cannot book past time slots")
  ELSE IF ~isWithinBookingLimit(date)
    THEN Resp(400, "Date is beyond the maximum advance booking period")
  ELSE IF ~\E w \in windows : w.date = date /\ w.isActive
    THEN Resp(400, "Selected date is not available for booking")
  ELSE IF ~\E w \in windows : w.date = date /\ w.isActive /\ isValidTimeSlot(w, timeSlot)
    THEN Resp(400, "Invalid time slot for the selected date")
  ELSE IF LiveAt(date, timeSlot, 0) # {} THEN Resp(409, MsgBooked)
  ELSE NoResp

CreateCheck(c, op, date, timeSlot) ==
  /\ Free(c) /\ Quiet
  /\ (nextBookingId - 1) + InFlight({"createBooking", "createSimpleBooking"}) < MaxBookings
  /\ LET r == BookingLegality(date, timeSlot)
         start == [Idle EXCEPT !.op = op, !.date = date, !.timeSlot = timeSlot]
     IN  req' = [req EXCEPT ![c] =
                   IF r = NoResp THEN [start EXCEPT !.pc = "presave"]
                   ELSE [start EXCEPT !.pc = "done", !.res = r]]
  /\ UNCHANGED <<bookings, windows, nextBookingId, nextWindowId, now, ticks, tz>>

createBooking(c, date, timeSlot) ==
  CreateCheck(c, "createBooking", date, timeSlot)

createSimpleBooking(c, date, timeSlot) ==
  CreateCheck(c, "createSimpleBooking", date, timeSlot)

(* bookingSchema.pre('save') of a new document: the reference, then the    *)
(* double-booking query                                                     *)
PreSaveNew(c) ==
  /\ req[c].pc = "presave" /\ Quiet
  /\ IF LiveAt(req[c].date, req[c].timeSlot, nextBookingId) # {}
     THEN Finish(c, 409, MsgBooked)
     ELSE req' = [req EXCEPT ![c].pc = "insert", ![c].ref = generateBookingReference]
  /\ UNCHANGED <<bookings, windows, nextBookingId, nextWindowId, now, ticks, tz>>

NewBooking(c) ==
  [id |-> nextBookingId, date |-> req[c].date, timeSlot |-> req[c].timeSlot,
   status |-> "confirmed", bookingReference |-> req[c].ref,
   cancelledAt |-> NoTime, cancellationReason |-> NoReason, checkedInAt |-> NoTime]

(* the insert of booking.save(): the unique indexes decide *)
InsertBooking(c) ==
  /\ req[c].pc = "insert" /\ Quiet
  /\ LET hits == {f \in {"date_timeSlot", "bookingReference"} :
                    \/ f = "date_timeSlot" /\ SlotIndexHit(req[c].date, req[c].timeSlot, 0)
                    \/ f = "bookingReference" /\ RefIndexHit(req[c].ref, 0)}
     IN  IF hits = {}
         THEN /\ bookings' = bookings \cup {NewBooking(c)}
              /\ nextBookingId' = nextBookingId + 1
              /\ req' = [req EXCEPT ![c] =
                           [Done(c, 201, "Booking created successfully")
                              EXCEPT !.bid = nextBookingId]]
         ELSE /\ \E f \in hits : req' = [req EXCEPT ![c] =
                           [Done(c, 0, "") EXCEPT !.res = DuplicateKeyResp(f)]]
              /\ UNCHANGED <<bookings, nextBookingId>>
  /\ UNCHANGED <<windows, nextWindowId, now, ticks, tz>>

(* createBooking run to its end on the present store with no other        *)
(* request in between: the checks of the controller, the pre('save') query  *)
(* and the insert                                                           *)
CreateOutcome(date, timeSlot) ==
  IF BookingLegality(date, timeSlot) # NoResp THEN BookingLegality(date, timeSlot)
  ELSE IF LiveAt(date, timeSlot, nextBookingId) # {} THEN Resp(409, MsgBooked)
  ELSE IF SlotIndexHit(date, timeSlot, 0) THEN DuplicateKeyResp("date_timeSlot")
  ELSE IF RefIndexHit(generateBookingReference, 0) THEN DuplicateKeyResp("bookingReference")
  ELSE Resp(201, "Booking created successfully")

-----------------------------------------------------------------------------
(* Saving a loaded Booking document: booking.save() sends the modified      *)
(* paths only, after the pre('save') double-booking query when date or      *)
(* timeSlot is modified; the (date, timeSlot) index decides the write.      *)

Loaded(c, op, b) == [Idle EXCEPT !.pc = "save", !.op = op, !.bid = b.id]

Written(c, d) ==
  [d EXCEPT
     !.date = IF req[c].modDate THEN req[c].date ELSE @,
     !.timeSlot = IF req[c].modTimeSlot THEN req[c].timeSlot ELSE @,
     !.status = IF req[c].setStatus # "" THEN req[c].setStatus ELSE @,
     !.cancelledAt = IF req[c].setCancelledAt # NoTime THEN req[c].setCancelledAt ELSE @,
     !.cancellationReason = IF req[c].setReason # NoReason THEN req[c].setReason ELSE @,
     !.checkedInAt = IF req[c].setCheckedInAt # NoTime THEN req[c].setCheckedInAt ELSE @]

(* a save that inserts the changed document as a new record *)
StoredCopy(c, d) == bookings \cup {[Written(c, d) EXCEPT !.id = nextBookingId]}

Stored(c, d) == (bookings \ {d}) \cup {Written(c, d)}

SavedMessage(op) ==
  IF op = "cancelBooking" THEN "Booking cancelled successfully"
  ELSE IF op = "rescheduleBooking" THEN "Booking rescheduled"
  ELSE IF op = "checkInBooking" THEN "Checked in successfully"
  ELSE IF op = "updateBookingStatus" THEN "Booking status updated"
  ELSE "Booking cancelled successfully"

SaveBooking(c) ==
  /\ req[c].pc = "save" /\ Quiet
  /\ \E d \in bookings :
       /\ d.id = req[c].bid
       /\ LET w == Written(c, d)
              moved == req[c].modDate \/ req[c].modTimeSlot
          IN  IF moved /\ LiveAt(req[c].date, req[c].timeSlot, d.id) # {}
              THEN Finish(c, 409, MsgBooked) /\ UNCHANGED bookings
              ELSE IF moved /\ SlotIndexHit(w.date, w.timeSlot, d.id)
              THEN /\ req' = [req EXCEPT ![c] =
                            [Done(c, 0, "") EXCEPT !.res = DuplicateKeyResp("date_timeSlot")]]
                   /\ UNCHANGED bookings
              ELSE /\ bookings' = Stored(c, d)
                   /\ Finish(c, 200, SavedMessage(req[c].op))
  /\ UNCHANGED <<windows, nextBookingId, nextWindowId, now, ticks, tz>>

FindByRef(ref) == {b \in bookings : b.bookingReference = ref}

FindById(id) == {b \in bookings : b.id = id}

NotFound(c, op) ==
  req' = [req EXCEPT ![c] = [Idle EXCEPT !.pc = "done", !.op = op,
                                          !.res = Resp(404, "Booking not found")]]

Refuse(c, op, b, msg) ==
  req' = [req EXCEPT ![c] = [Idle EXCEPT !.pc = "done", !.op = op, !.bid = b.id,
                                          !.res = Resp(400, msg)]]

(* BookingController.cancelBooking with bookingSchema.methods.cancel *)

TooLateToCancelNoFloor(b) == bookingDateTime(b) - now < CancelCutoffHours * 60

TooLateToCancel(b) ==
  LET minutesUntilBooking == bookingDateTime(b) - now
  IN  minutesUntilBooking < CancelCutoffHours * 60 /\ minutesUntilBooking > 0

CancelRefusalLax(b) ==
  IF b.status = "cancelled" THEN "Booking is already cancelled"
  ELSE IF TooLateToCancel(b)
    THEN "Cannot cancel booking within 2 hours of appointment time"
  ELSE ""

CancelRefusal(b) ==
  IF b.status = "cancelled" THEN "Booking is already cancelled"
  ELSE IF b.status = "completed" THEN "Cannot cancel completed booking"
  ELSE IF TooLateToCancel(b)
    THEN "Cannot cancel booking within 2 hours of appointment time"
  ELSE ""

cancelBooking(c, ref, reason) ==
  /\ Free(c) /\ Quiet
  /\ IF FindByRef(ref) = {} THEN NotFound(c, "cancelBooking")
     ELSE \E b \in FindByRef(ref) :
       IF CancelRefusal(b) # "" THEN Refuse(c, "cancelBooking", b, CancelRefusal(b))
       ELSE req' = [req EXCEPT ![c] =
                      [Loaded(c, "cancelBooking", b) EXCEPT
                         !.reason = reason,
                         !.setStatus = "cancelled", !.setCancelledAt = now,
                         !.setReason = reason]]
  /\ UNCHANGED <<bookings, windows, nextBookingId, nextWindowId, now, ticks, tz>>

(* BookingController.rescheduleBooking *)

(* the conflict query without its exclusion of the booking itself *)
RescheduleLegalityNoSelf(b, newDate, newTimeSlot) ==
  IF isPastDate(newDate) THEN Resp(400, "Cannot reschedule to a past date")
  ELSE IF isPastTimeSlot(newDate, newTimeSlot)
    THEN Resp(400, "Cannot reschedule to a past time slot")
  ELSE IF ~\E w \in windows : w.date = newDate /\ w.isActive
    THEN Resp(400, "New date is not available for booking")
  ELSE IF ~\E w \in windows : w.date = newDate /\ w.isActive /\ isValidTimeSlot(w, newTimeSlot)
    THEN Resp(400, "Invalid time slot for the new date")
  ELSE IF LiveAt(newDate, newTimeSlot, 0) # {}
    THEN Resp(409, "New time slot is already booked")
  ELSE NoResp

RescheduleLegality(b, newDate, newTimeSlot) ==
  IF isPastDate(newDate) THEN Resp(400, "Cannot reschedule to a past date")
  ELSE IF isPastTimeSlot(newDate, newTimeSlot)
    THEN Resp(400, "Cannot reschedule to a past time slot")
  ELSE IF ~\E w \in windows : w.date = newDate /\ w.isActive
    THEN Resp(400, "New date is not available for booking")
  ELSE IF ~\E w \in windows : w.date = newDate /\ w.isActive /\ isValidTimeSlot(w, newTimeSlot)
    THEN Resp(400, "Invalid time slot for the new date")
  ELSE IF LiveAt(newDate, newTimeSlot, b.id) # {}
    THEN Resp(409, "New time slot is already booked")
  ELSE NoResp

RescheduleRefusalLax(b) ==
  IF b.status = "cancelled" THEN "Cannot reschedule cancelled booking" ELSE ""

RescheduleRefusal(b) ==
  IF b.status = "cancelled" THEN "Cannot reschedule cancelled booking"
  ELSE IF b.status = "completed" THEN "Cannot reschedule completed booking"
  ELSE ""

rescheduleBooking(c, ref, newDate, newTimeSlot) ==
  /\ Free(c) /\ Quiet
  /\ IF FindByRef(ref) = {} THEN NotFound(c, "rescheduleBooking")
     ELSE \E b \in FindByRef(ref) :
       IF RescheduleRefusal(b) # ""
         THEN Refuse(c, "rescheduleBooking", b, RescheduleRefusal(b))
       ELSE LET r == RescheduleLegality(b, newDate, newTimeSlot)
            IN  req' = [req EXCEPT ![c] =
                  IF r # NoResp
                  THEN [Idle EXCEPT !.pc = "done", !.op = "rescheduleBooking",
                                    !.bid = b.id, !.date = newDate,
                                    !.timeSlot = newTimeSlot, !.res = r]
                  ELSE [Loaded(c, "rescheduleBooking", b) EXCEPT
                          !.date = newDate, !.timeSlot = newTimeSlot,
                          !.modDate = (newDate # b.date),
                          !.modTimeSlot = (newTimeSlot # b.timeSlot)]]
  /\ UNCHANGED <<bookings, windows, nextBookingId, nextWindowId, now, ticks, tz>>

(* BookingController.checkInBooking with bookingSchema.methods.checkIn *)

Abs(x) == IF x < 0 THEN -x ELSE x

CheckInRefusal(b) ==
  IF b.status # "confirmed" THEN "Only confirmed bookings can be checked in"
  ELSE IF b.date # getCurrentDate THEN "Can only check in for today's bookings"
  ELSE IF Abs(getCurrentTime - b.timeSlot) > CheckInWindowMinutes
    THEN "Can only check in within 30 minutes of booking time"
  ELSE ""

checkInBooking(c, ref) ==
  /\ Free(c) /\ Quiet
  /\ IF FindByRef(ref) = {} THEN NotFound(c, "checkInBooking")
     ELSE \E b \in FindByRef(ref) :
       IF CheckInRefusal(b) # "" THEN Refuse(c, "checkInBooking", b, CheckInRefusal(b))
       ELSE req' = [req EXCEPT ![c] =
                      [Loaded(c, "checkInBooking", b) EXCEPT !.setCheckedInAt = now]]
  /\ UNCHANGED <<bookings, windows, nextBookingId, nextWindowId, now, ticks, tz>>

-----------------------------------------------------------------------------
(* AdminController: bookings *)

updateBookingStatus(c, id, status, cancellationReason) ==
  /\ Free(c) /\ Quiet
  /\ IF FindById(id) = {} THEN NotFound(c, "updateBookingStatus")
     ELSE \E b \in FindById(id) :
       req' = [req EXCEPT ![c] =
                 [Loaded(c, "updateBookingStatus", b) EXCEPT
                    !.setStatus = IF status # b.status THEN status ELSE "",
                    !.setReason = IF status = "cancelled" THEN cancellationReason
                                  ELSE NoReason,
                    !.setCancelledAt =
                       IF status = "cancelled" /\ cancellationReason # NoReason
                       THEN now ELSE NoTime]]
  /\ UNCHANGED <<bookings, windows, nextBookingId, nextWindowId, now, ticks, tz>>

deleteBooking(c, id, reason) ==
  /\ Free(c) /\ Quiet
  /\ IF FindById(id) = {} THEN NotFound(c, "deleteBooking")
     ELSE \E b \in FindById(id) :
       req' = [req EXCEPT ![c] =
                 [Loaded(c, "deleteBooking", b) EXCEPT
                    !.setStatus = IF b.status # "cancelled" THEN "cancelled" ELSE "",
                    !.setCancelledAt = now,
                    !.setReason = reason]]
  /\ UNCHANGED <<bookings, windows, nextBookingId, nextWindowId, now, ticks, tz>>

(* Booking.updateMany({_id: {$in: bookingIds}}, updateData) *)
BulkUpdateData(action, status, reason) ==
  IF action = "update_status" /\ status # ""
  THEN [status |-> status,
        cancelledAt |-> IF status = "cancelled" THEN now ELSE NoTime,
        reason |-> IF status = "cancelled" THEN reason ELSE NoReason]
  ELSE IF action = "cancel"
  THEN [status |-> "cancelled", cancelledAt |-> now, reason |-> reason]
  ELSE [status |-> "", cancelledAt |-> NoTime, reason |-> NoReason]

bulkUpdateBookings(c, bookingIds, action, status, reason) ==
  /\ Free(c) /\ Quiet
  /\ bookingIds # {}
  /\ LET u == BulkUpdateData(action, status, reason)
         upd(b) == IF b.id \notin bookingIds THEN b
                   ELSE [b EXCEPT
                     !.status = IF u.status # "" THEN u.status ELSE @,
                     !.cancelledAt = IF u.cancelledAt # NoTime THEN u.cancelledAt ELSE @,
                     !.cancellationReason = IF u.reason # NoReason THEN u.reason ELSE @]
     IN  bookings' = {upd(b) : b \in bookings}
  /\ req' = [req EXCEPT ![c] = [Idle EXCEPT !.pc = "done", !.op = "bulkUpdateBookings",
                                             !.res = Resp(200, "Bulk operation completed")]]
  /\ UNCHANGED <<windows, nextBookingId, nextWindowId, now, ticks, tz>>

-----------------------------------------------------------------------------
(* AdminController: available dates *)

(* a count that finds no booking *)
LiveOnDateNone(date) == {}

LiveOnDate(date) == {b \in bookings : b.date = date /\ b.status # "cancelled"}

WindowById(id) == {w \in windows : w.id = id}

NewWindow(date, startTime, endTime, slotDuration) ==
  [id |-> 0, date |-> date, startTime |-> startTime, endTime |-> endTime,
   slotDuration |-> IF slotDuration # 0 THEN slotDuration ELSE DefaultSlotDuration,
   isActive |-> TRUE]

PendingInserts(c) ==
  IF req[c].pc = "winInsert" THEN 1
  ELSE IF req[c].pc = "bulkInsert" THEN Len(req[c].items)
  ELSE 0

(* window ids still to be given out, the inserts in flight counted *)
WindowRoom == MaxWindows - (nextWindowId - 1) - PendingInserts(1) - PendingInserts(2)

createAvailableDate(c, date, startTime, endTime, slotDuration) ==
  /\ Free(c) /\ Quiet
  /\ WindowRoom >= 1
  /\ req' = [req EXCEPT ![c] =
       IF \E w \in windows : w.date = date
       THEN [Idle EXCEPT !.pc = "done", !.op = "createAvailableDate", !.date = date,
                         !.res = Resp(409, "Please select another date to continue")]
       ELSE [Idle EXCEPT !.pc = "winInsert", !.op = "createAvailableDate", !.date = date,
                         !.win = NewWindow(date, startTime, endTime, slotDuration)]]
  /\ UNCHANGED <<bookings, windows, nextBookingId, nextWindowId, now, ticks, tz>>

(* availableDate.save() of a new document: schema validators, the          *)
(* pre('save') range check, then the insert under the unique date index.   *)
MsgE11000 == "E11000 duplicate key error"

MsgValidation == "AvailableDate validation failed"

(* error.message of the error that availableDate.save() throws, "" if none *)
WindowSaveFault(w, id) ==
  IF w.slotDuration < MinSlotDuration \/ w.slotDuration > MaxSlotDuration
    THEN MsgValidation
  ELSE IF w.startTime >= w.endTime THEN "End time must be after start time"
  ELSE IF (w.endTime - w.startTime) < w.slotDuration
    THEN "Time range must be at least one slot duration"
  ELSE IF DateIndexHit(w.date, id) THEN MsgE11000
  ELSE ""

(* the response errorHandler makes of that error *)
WindowSaveError(w, id) ==
  LET m == WindowSaveFault(w, id)
  IN  IF m = "" THEN NoResp
      ELSE IF m = MsgValidation THEN Resp(400, "Validation Error")
      ELSE IF m = MsgE11000 THEN DuplicateKeyResp("date")
      ELSE Resp(500, m)

InsertWindow(c) ==
  /\ req[c].pc = "winInsert" /\ Quiet
  /\ LET e == WindowSaveError(req[c].win, 0)
     IN  IF e # NoResp
         THEN /\ req' = [req EXCEPT ![c] = [Done(c, 0, "") EXCEPT !.date = req[c].date,
                                                                    !.res = e]]
              /\ UNCHANGED <<windows, nextWindowId>>
         ELSE /\ windows' = windows \cup {[req[c].win EXCEPT !.id = nextWindowId]}
              /\ nextWindowId' = nextWindowId + 1
              /\ req' = [req EXCEPT ![c] =
                           [Done(c, 201, "Available date created successfully")
                              EXCEPT !.date = req[c].date]]
  /\ UNCHANGED <<bookings, nextBookingId, now, ticks, tz>>

(* AdminController.createBulkAvailableDates: `dates` is a sequence of       *)
(* window specifications                                                    *)
createBulkAvailableDates(c, dates) ==
  /\ Free(c) /\ Quiet
  /\ Len(dates) >= 1
  /\ WindowRoom >= Len(dates)
  /\ req' = [req EXCEPT ![c] =
       IF \E w \in windows : \E i \in 1..Len(dates) : w.date = dates[i].date
       THEN [Idle EXCEPT !.pc = "done", !.op = "createBulkAvailableDates",
                         !.items = dates,
                         !.res = Resp(409, "Please select another date")]
       ELSE [Idle EXCEPT !.pc = "bulkInsert", !.op = "createBulkAvailableDates",
                         !.items = dates]]
  /\ UNCHANGED <<bookings, windows, nextBookingId, nextWindowId, now, ticks, tz>>

(* one turn of the loop: save the next date, or record its error *)
BulkInsertNext(c) ==
  /\ req[c].pc = "bulkInsert" /\ Quiet
  /\ req[c].items # <<>>
  /\ LET w == Head(req[c].items)
         m == WindowSaveFault(w, 0)
     IN  IF m # ""
         THEN /\ req' = [req EXCEPT ![c].items = Tail(@),
                                     ![c].errors = Append(@, [date |-> w.date,
                                                              reason |-> m])]
              /\ UNCHANGED <<windows, nextWindowId>>
         ELSE /\ windows' = windows \cup {[w EXCEPT !.id = nextWindowId]}
              /\ nextWindowId' = nextWindowId + 1
              /\ req' = [req EXCEPT ![c].items = Tail(@),
                                     ![c].created = Append(@, [w EXCEPT !.id = nextWindowId])]
  /\ UNCHANGED <<bookings, nextBookingId, now, ticks, tz>>

BulkRespond(c) ==
  /\ req[c].pc = "bulkInsert" /\ Quiet
  /\ req[c].items = <<>>
  /\ req' = [req EXCEPT ![c] = [Done(c, 200, "Successfully created dates") EXCEPT
                                  !.created = req[c].created, !.errors = req[c].errors]]
  /\ UNCHANGED <<bookings, windows, nextBookingId, nextWindowId, now, ticks, tz>>

(* AdminController.updateAvailableDate.  An absent field of the patch is    *)
(* NoTime (startTime, endTime), 0 (slotDuration) or "" (isActive).          *)
PatchedWindow(w, startTime, endTime, slotDuration, isActive) ==
  [w EXCEPT !.startTime = IF startTime # NoTime THEN startTime ELSE @,
            !.endTime = IF endTime # NoTime THEN endTime ELSE @,
            !.slotDuration = IF slotDuration # 0 THEN slotDuration ELSE @,
            !.isActive = IF isActive = "" THEN @ ELSE (isActive = "true")]

ModifiedPaths(w, v) ==
  {f \in {"startTime", "endTime", "slotDuration", "isActive"} : w[f] # v[f]}

(* the guard without the slotDuration of the patch *)
TouchesTimesNoDuration(startTime, endTime, slotDuration) ==
  startTime # NoTime \/ endTime # NoTime

TouchesTimes(startTime, endTime, slotDuration) ==
  startTime # NoTime \/ endTime # NoTime \/ slotDuration # 0

updateAvailableDate(c, id, startTime, endTime, slotDuration, isActive) ==
  /\ Free(c) /\ Quiet
  /\ IF WindowById(id) = {}
     THEN req' = [req EXCEPT ![c] = [Idle EXCEPT !.pc = "done", !.op = "updateAvailableDate",
                                       !.res = Resp(404, "Available date not found")]]
     ELSE \E w \in WindowById(id) :
       IF TouchesTimes(startTime, endTime, slotDuration) /\ LiveOnDate(w.date) # {}
       THEN req' = [req EXCEPT ![c] =
              [Idle EXCEPT !.pc = "done", !.op = "updateAvailableDate", !.date = w.date,
                 !.patch = <<startTime, endTime, slotDuration, isActive>>,
                 !.res = Resp(400, "Cannot modify time settings when there are existing bookings")]]
       ELSE LET v == PatchedWindow(w, startTime, endTime, slotDuration, isActive)
            IN  req' = [req EXCEPT ![c] =
                  [Idle EXCEPT !.pc = "winSave", !.op = "updateAvailableDate",
                               !.date = w.date, !.win = v, !.wmod = ModifiedPaths(w, v),
                               !.patch = <<startTime, endTime, slotDuration, isActive>>]]
  /\ UNCHANGED <<bookings, windows, nextBookingId, nextWindowId, now, ticks, tz>>

(* availableDate.save() of a loaded document *)
SaveWindow(c) ==
  /\ req[c].pc = "winSave" /\ Quiet
  /\ LET v == req[c].win
         e == WindowSaveError(v, v.id)
     IN  IF e # NoResp
         THEN /\ req' = [req EXCEPT ![c] = [Done(c, 0, "") EXCEPT !.date = req[c].date,
                                                                    !.res = e]]
              /\ UNCHANGED windows
         ELSE IF WindowById(v.id) = {} /\ req[c].wmod # {}
         THEN /\ req' = [req EXCEPT ![c] =
                           [Done(c, 500, "No document found") EXCEPT !.date = req[c].date]]
              /\ UNCHANGED windows
         ELSE /\ windows' =
                   {IF w.id # v.id THEN w
                    ELSE [f \in DOMAIN w |-> IF f \in req[c].wmod THEN v[f] ELSE w[f]]
                      : w \in windows}
              /\ req' = [req EXCEPT ![c] =
                           [Done(c, 200, "Available date updated successfully")
                              EXCEPT !.date = req[c].date]]
  /\ UNCHANGED <<bookings, nextBookingId, nextWindowId, now, ticks, tz>>

(* AdminController.deleteAvailableDate *)
deleteAvailableDate(c, id) ==
  /\ Free(c) /\ Quiet
  /\ IF WindowById(id) = {}
     THEN req' = [req EXCEPT ![c] = [Idle EXCEPT !.pc = "done", !.op = "deleteAvailableDate",
                                       !.res = Resp(404, "Available date not found")]]
     ELSE \E w \in WindowById(id) :
       req' = [req EXCEPT ![c] =
         IF LiveOnDate(w.date) # {}
         THEN [Idle EXCEPT !.pc = "done", !.op = "deleteAvailableDate", !.date = w.date,
                 !.res = Resp(400, "Cannot delete date with existing bookings. Cancel bookings first.")]
         ELSE [Idle EXCEPT !.pc = "winDelete", !.op = "deleteAvailableDate",
                           !.date = w.date, !.win = w]]
  /\ UNCHANGED <<bookings, windows, nextBookingId, nextWindowId, now, ticks, tz>>

(* AvailableDate.findByIdAndDelete(id) *)
DeleteWindow(c) ==
  /\ req[c].pc = "winDelete" /\ Quiet
  /\ windows' = {w \in windows : w.id # req[c].win.id}
  /\ req' = [req EXCEPT ![c] = [Done(c, 200, "Available date deleted successfully")
                                  EXCEPT !.date = req[c].date]]
  /\ UNCHANGED <<bookings, nextBookingId, nextWindowId, now, ticks, tz>>

-----------------------------------------------------------------------------
(* CustomerController: the read-only views.  A view reads the store and    *)
(* sends its response in one step; the data of the response is `body`.     *)

LookAheadDays == 30

View(op, date, timeSlot, code, msg, body) ==
  [Idle EXCEPT !.pc = "done", !.op = op, !.date = date, !.timeSlot = timeSlot,
               !.res = Resp(code, msg), !.body = body]

(* findOne({date, isActive: true}): the date index admits one window *)
ActiveWindows(date) == {w \in windows : w.date = date /\ w.isActive}

ActiveWindow(date) == CHOOSE w \in ActiveWindows(date) : TRUE

(* the timeSlot values of Booking.find({date, status: {$nin: ['cancelled']}}) *)
bookedSlots(date) == {b.timeSlot : b \in LiveOnDate(date)}

SlotEntry(date, slot) ==
  [time |-> slot,
   available |-> slot \notin bookedSlots(date),
   isBooked |-> slot \in bookedSlots(date),
   isPast |-> IF isToday(date) THEN isPastTimeSlot(date, slot) ELSE FALSE]

NotPastToday(date, entry) == IF isToday(date) THEN ~entry.isPast ELSE TRUE

SlotsResponse(date) ==
  LET allSlots == generateTimeSlots(ActiveWindow(date).startTime, ActiveWindow(date).endTime,
                                    ActiveWindow(date).slotDuration)
      slots == [i \in 1..Len(allSlots) |-> SlotEntry(date, allSlots[i])]
  IN  SelectSeq(slots, LAMBDA entry : NotPastToday(date, entry))

getAvailableSlots(c, date) ==
  /\ Free(c) /\ Quiet
  /\ req' = [req EXCEPT ![c] =
       IF isPastDate(date)
         THEN View("getAvailableSlots", date, NoTime, 400, "Cannot book slots for past dates", <<>>)
       ELSE IF ~isWithinBookingLimit(date)
         THEN View("getAvailableSlots", date, NoTime, 400,
                   "Date is beyond the maximum advance booking period", <<>>)
       ELSE IF ActiveWindows(date) = {}
         THEN View("getAvailableSlots", date, NoTime, 404, "No slots available for this date", <<>>)
       ELSE View("getAvailableSlots", date, NoTime, 200, "Time slots retrieved successfully",
                 SlotsResponse(date))]
  /\ UNCHANGED <<bookings, windows, nextBookingId, nextWindowId, now, ticks, tz>>

(* availableDateSchema.virtual('totalSlots') *)
totalSlots(w) == (w.endTime - w.startTime) \div w.slotDuration

(* CustomerController.getCalendar for the month that holds `days` *)
CalendarDay(date) ==
  IF ActiveWindows(date) = {} THEN [date |-> date, isAvailable |-> FALSE]
  ELSE LET total == totalSlots(ActiveWindow(date))
           booked == Cardinality(LiveOnDate(date))
       IN  [date |-> date, isAvailable |-> TRUE, totalSlots |-> total,
            bookedSlots |-> booked, availableSlots |-> total - booked,
            isFullyBooked |-> booked >= total]

getCalendar(c, days) ==
  /\ Free(c) /\ Quiet
  /\ req' = [req EXCEPT ![c] =
       View("getCalendar", 0, NoTime, 200, "Calendar data retrieved successfully",
            [d \in days |-> CalendarDay(d)])]
  /\ UNCHANGED <<bookings, windows, nextBookingId, nextWindowId, now, ticks, tz>>

(* CustomerController.checkSlotAvailability *)
SlotAvailability(date, timeSlot) ==
  IF isPastDate(date) THEN [available |-> FALSE, reason |-> "Date is in the past"]
  ELSE IF isPastTimeSlot(date, timeSlot)
    THEN [available |-> FALSE, reason |-> "Time slot is in the past"]
  ELSE IF ActiveWindows(date) = {}
    THEN [available |-> FALSE, reason |-> "Date is not available for booking"]
  ELSE IF ~isValidTimeSlot(ActiveWindow(date), timeSlot)
    THEN [available |-> FALSE, reason |-> "Time slot is not valid for this date"]
  ELSE IF LiveAt(date, timeSlot, 0) # {}
    THEN [available |-> FALSE, reason |-> "Time slot is already booked"]
  ELSE [available |-> TRUE, reason |-> ""]

checkSlotAvailability(c, date, timeSlot) ==
  /\ Free(c) /\ Quiet
  /\ req' = [req EXCEPT ![c] =
       View("checkSlotAvailability", date, timeSlot, 200, "Slot availability checked",
            SlotAvailability(date, timeSlot))]
  /\ UNCHANGED <<bookings, windows, nextBookingId, nextWindowId, now, ticks, tz>>

(* BookingController.validateBookingData: the messages of `errors` *)
ValidationErrors(date, timeSlot) ==
  LET basic ==
        (IF isPastDate(date) THEN {"Cannot book dates in the past"} ELSE {})
        \cup (IF ~isWithinBookingLimit(date)
              THEN {"Date is beyond the maximum advance booking period"} ELSE {})
        \cup (IF isPastTimeSlot(date, timeSlot) THEN {"Cannot book past time slots"} ELSE {})
  IN  IF basic # {} THEN basic
      ELSE IF ActiveWindows(date) = {} THEN {"Selected date is not available for booking"}
      ELSE (IF ~isValidTimeSlot(ActiveWindow(date), timeSlot)
            THEN {"Invalid time slot for the selected date"} ELSE {})
           \cup (IF LiveAt(date, timeSlot, 0) # {} THEN {MsgBooked} ELSE {})

validateBookingData(c, date, timeSlot) ==
  /\ Free(c) /\ Quiet
  /\ req' = [req EXCEPT ![c] =
       View("validateBookingData", date, timeSlot, 200, "Booking validation completed",
            [isValid |-> ValidationErrors(date, timeSlot) = {},
             errors |-> ValidationErrors(date, timeSlot)])]
  /\ UNCHANGED <<bookings, windows, nextBookingId, nextWindowId, now, ticks, tz>>

(* find(...).sort({date: 1}): the windows of S in ascending date order *)
RECURSIVE SortByDate(_)
SortByDate(S) ==
  IF S = {} THEN <<>>
  ELSE LET first == CHOOSE w \in S : \A v \in S : w.date <= v.date
       IN  <<first>> \o SortByDate(S \ {first})

(* CustomerController.getNextAvailableSlots: the inner loop over the slots *)
(* of one date, and the outer loop over the dates                          *)
RECURSIVE SlotLoop(_, _, _, _)
SlotLoop(date, timeSlots, nextSlots, maxSlots) ==
  IF timeSlots = <<>> \/ Len(nextSlots) >= maxSlots THEN nextSlots
  ELSE IF Head(timeSlots) \in bookedSlots(date)
    THEN SlotLoop(date, Tail(timeSlots), nextSlots, maxSlots)
  ELSE IF isPastTimeSlot(date, Head(timeSlots))
    THEN SlotLoop(date, Tail(timeSlots), nextSlots, maxSlots)
  ELSE SlotLoop(date, Tail(timeSlots),
                Append(nextSlots, [date |-> date, timeSlot |-> Head(timeSlots)]), maxSlots)

RECURSIVE DateLoop(_, _, _)
DateLoop(availableDates, nextSlots, maxSlots) ==
  IF availableDates = <<>> \/ Len(nextSlots) >= maxSlots THEN nextSlots
  ELSE LET w == Head(availableDates)
       IN  DateLoop(Tail(availableDates),
                    SlotLoop(w.date, generateTimeSlots(w.startTime, w.endTime, w.slotDuration),
                             nextSlots, maxSlots),
                    maxSlots)

(* fromDate is NoTime when the query does not give it *)
getNextAvailableSlots(c, count, fromDate) ==
  /\ Free(c) /\ Quiet
  /\ LET startDate == IF fromDate # NoTime THEN fromDate ELSE getCurrentDate
         endDate == getDateAfterDays(LookAheadDays)
         availableDates ==
           SortByDate({w \in windows : w.date >= startDate /\ w.date <= endDate /\ w.isActive})
     IN  req' = [req EXCEPT ![c] =
           [View("getNextAvailableSlots", startDate, NoTime, 200,
                 "Next available slots retrieved successfully",
                 DateLoop(availableDates, <<>>, count))
              EXCEPT !.patch = <<count, fromDate>>]]
  /\ UNCHANGED <<bookings, windows, nextBookingId, nextWindowId, now, ticks, tz>>

(* AdminController.getAvailableDatesWithTimings *)
AdminBookedStatuses == {"confirmed", "pending"}

TimingEntry(date, slot) ==
  LET hits == {b \in bookings : b.date = date /\ b.timeSlot = slot
                                 /\ b.status \in AdminBookedStatuses}
  IN  [time |-> slot, isBooked |-> hits # {}]

DateTimings(w) ==
  LET timeSlots == generateTimeSlots(w.startTime, w.endTime, w.slotDuration)
  IN  [i \in 1..Len(timeSlots) |-> TimingEntry(w.date, timeSlots[i])]

getAvailableDatesWithTimings(c) ==
  /\ Free(c) /\ Quiet
  /\ LET availableDates == {w \in windows : w.date >= getCurrentDate /\ w.isActive}
     IN  req' = [req EXCEPT ![c] =
           View("getAvailableDatesWithTimings", 0, NoTime, 200,
                "Available dates with timings and booking status retrieved successfully",
                [d \in {w.date : w \in availableDates} |-> DateTimings(ActiveWindow(d))])]
  /\ UNCHANGED <<bookings, windows, nextBookingId, nextWindowId, now, ticks, tz>>

-----------------------------------------------------------------------------
(* The clock *)

Tick(minutes) ==
  /\ ticks < MaxTicks
  /\ now' = now + minutes
  /\ ticks' = ticks + 1
  /\ UNCHANGED <<bookings, windows, nextBookingId, nextWindowId, tz, req>>

-----------------------------------------------------------------------------
(* Inputs *)

Dates == {1, 2}
TimeSlots == {T0900, T0930}
Reasons == {NoReason, "changed plans"}
AdminStatuses == {"confirmed", "cancelled", "completed"}
BulkActions == {"update_status", "cancel"}
Refs == {b.bookingReference : b \in bookings} \cup {NoRef}
BookingIds == {b.id : b \in bookings}

SeedWindows ==
  {[id |-> 1, date |-> 1, startTime |-> T0900, endTime |-> T1000, slotDuration |-> 30,
    isActive |-> TRUE],
   [id |-> 2, date |-> 2, startTime |-> T0900, endTime |-> T1000, slotDuration |-> 60,
    isActive |-> TRUE]}

(* The state after construction: an empty database *)
Init ==
  /\ bookings = {}
  /\ windows = {}
  /\ nextBookingId = 1
  /\ nextWindowId = 1
  /\ now = StartNow
  /\ ticks = 0
  /\ tz = 0
  /\ req = [c \in Conns |-> Idle]

(* A database in which the administrator has opened two dates *)
InitSeeded ==
  /\ bookings = {}
  /\ windows = SeedWindows
  /\ nextBookingId = 1
  /\ nextWindowId = 3
  /\ now = StartNow
  /\ ticks = 0
  /\ tz = 0
  /\ req = [c \in Conns |-> Idle]

BookingSteps ==
  \E c \in Conns :
    \/ PreSaveNew(c)
    \/ InsertBooking(c)
    \/ SaveBooking(c)
    \/ Respond(c)

(* Two clients creating bookings while bookings are cancelled *)
NextRace ==
  \/ \E c \in Conns, d \in Dates, t \in TimeSlots : createBooking(c, d, t)
  \/ \E c \in Conns, d \in Dates, t \in TimeSlots : createSimpleBooking(c, d, t)
  \/ \E c \in Conns, r \in Refs, why \in Reasons : cancelBooking(c, r, why)
  \/ \E c \in Conns, id \in BookingIds, why \in Reasons : deleteBooking(c, id, why)
  \/ BookingSteps

SpecRace == InitSeeded /\ [][NextRace]_vars

(* Every booking operation of the customer and of the administrator *)
NextBookings ==
  \/ \E c \in Conns, d \in Dates, t \in TimeSlots : createBooking(c, d, t)
  \/ \E c \in Conns, d \in Dates, t \in TimeSlots : createSimpleBooking(c, d, t)
  \/ \E c \in Conns, r \in Refs : cancelBooking(c, r, NoReason)
  \/ \E c \in Conns, r \in Refs, d \in Dates, t \in TimeSlots : rescheduleBooking(c, r, d, t)
  \/ \E c \in Conns, id \in BookingIds, st \in AdminStatuses :
       updateBookingStatus(c, id, st, NoReason)
  \/ \E c \in Conns, id \in BookingIds : deleteBooking(c, id, NoReason)
  \/ \E c \in Conns, ids \in SUBSET BookingIds, a \in BulkActions, st \in AdminStatuses :
       bulkUpdateBookings(c, ids, a, st, NoReason)
  \/ BookingSteps

SpecBookings == InitSeeded /\ [][NextBookings]_vars

(* The administrator's available dates, from an empty database *)
WindowShapes == {<<T0900, T1000, 30>>, <<T0900, T1000, 0>>, <<T0900, T0930, 60>>}

WindowPatches ==
  {<<NoTime, NoTime, 60, "">>, <<NoTime, NoTime, 0, "false">>, <<NoTime, NoTime, 0, "true">>}

WindowIds == {w.id : w \in windows}

BulkItem(d) == NewWindow(d, T0900, T1000, 30)

BulkInputs ==
  {<<BulkItem(d)>> : d \in Dates} \cup
  (IF MaxBulk >= 2 THEN {<<BulkItem(d), BulkItem(e)>> : d \in Dates, e \in Dates} ELSE {})

WindowSteps ==
  \E c \in Conns :
    \/ InsertWindow(c)
    \/ BulkInsertNext(c)
    \/ BulkRespond(c)
    \/ SaveWindow(c)
    \/ DeleteWindow(c)
    \/ Respond(c)

NextDates ==
  \/ \E c \in Conns, d \in Dates, sh \in WindowShapes :
       createAvailableDate(c, d, sh[1], sh[2], sh[3])
  \/ \E c \in Conns, ds \in BulkInputs : createBulkAvailableDates(c, ds)
  \/ \E c \in Conns, id \in WindowIds, pa \in WindowPatches :
       updateAvailableDate(c, id, pa[1], pa[2], pa[3], pa[4])
  \/ \E c \in Conns, id \in WindowIds : deleteAvailableDate(c, id)
  \/ WindowSteps

SpecDates == Init /\ [][NextDates]_vars

(* Bookings made, moved and revived while the administrator changes and     *)
(* deletes the dates                                                         *)
NextWindows ==
  \/ \E c \in Conns, d \in Dates, t \in TimeSlots : createBooking(c, d, t)
  \/ \E c \in Conns, r \in Refs, d \in Dates : rescheduleBooking(c, r, d, T0930)
  \/ \E c \in Conns, id \in BookingIds, st \in {"confirmed", "cancelled"} :
       updateBookingStatus(c, id, st, NoReason)
  \/ \E c \in Conns, id \in WindowIds, duration \in {0, 60} :
       updateAvailableDate(c, id, NoTime, NoTime, duration, IF duration = 0 THEN "false" ELSE "")
  \/ \E c \in Conns, id \in WindowIds : deleteAvailableDate(c, id)
  \/ \E c \in Conns :
       \/ PreSaveNew(c)
       \/ InsertBooking(c)
       \/ SaveBooking(c)
       \/ SaveWindow(c)
       \/ DeleteWindow(c)
       \/ Respond(c)

SpecWindows == InitSeeded /\ [][NextWindows]_vars

(* The customer's operations on bookings whose status the administrator    *)
(* changes                                                                   *)
NextCustomer ==
  \/ \E c \in Conns, d \in Dates, t \in TimeSlots : createBooking(c, d, t)
  \/ \E c \in Conns, r \in Refs : cancelBooking(c, r, NoReason)
  \/ \E c \in Conns, r \in Refs, d \in Dates : rescheduleBooking(c, r, d, T0900)
  \/ \E c \in Conns, r \in Refs : checkInBooking(c, r)
  \/ \E c \in Conns, id \in BookingIds, st \in AdminStatuses :
       updateBookingStatus(c, id, st, NoReason)
  \/ BookingSteps

SpecCustomer == InitSeeded /\ [][NextCustomer]_vars

(* Cancellations while the clock advances *)
TickSizes == {30, 22 * 60 + 30}

NextCancel ==
  \/ \E c \in Conns, d \in Dates : createBooking(c, d, T0900)
  \/ \E c \in Conns, r \in Refs, why \in Reasons : cancelBooking(c, r, why)
  \/ \E c \in Conns, id \in BookingIds : updateBookingStatus(c, id, "completed", NoReason)
  \/ \E m \in TickSizes : Tick(m)
  \/ BookingSteps

SpecCancel == InitSeeded /\ [][NextCancel]_vars

(* Reschedules to open, past and far dates *)
T0800 == 8 * 60

FarDate == (StartNow \div MinutesPerDay) + MaxAdvanceBookingDays + 1

FarWindow ==
  [id |-> 3, date |-> FarDate, startTime |-> T0900, endTime |-> T1000, slotDuration |-> 30,
   isActive |-> TRUE]

RescheduleDates == {0} \cup Dates \cup {FarDate}

(* A database in which a date beyond the booking horizon is open as well *)
InitFar ==
  /\ bookings = {}
  /\ windows = SeedWindows \cup {FarWindow}
  /\ nextBookingId = 1
  /\ nextWindowId = 4
  /\ now = StartNow
  /\ ticks = 0
  /\ tz = 0
  /\ req = [c \in Conns |-> Idle]

NextReschedule ==
  \/ \E c \in Conns, d \in Dates, t \in TimeSlots : createBooking(c, d, t)
  \/ \E c \in Conns, r \in Refs, d \in RescheduleDates, t \in TimeSlots \cup {T0800} :
       rescheduleBooking(c, r, d, t)
  \/ \E c \in Conns, id \in BookingIds : updateBookingStatus(c, id, "cancelled", NoReason)
  \/ BookingSteps

SpecReschedule == InitFar /\ [][NextReschedule]_vars

(* Check-ins on a server whose local time zone is UTC or five hours west   *)
(* of it, while the clock advances                                          *)
T2030 == 20 * 60 + 30
T2100 == 21 * 60
T2130 == 21 * 60 + 30

Zones == {0, -(5 * 60)}

CheckInWindows ==
  {[id |-> 1, date |-> 1, startTime |-> T0900, endTime |-> T1000, slotDuration |-> 30,
    isActive |-> TRUE],
   [id |-> 2, date |-> 2, startTime |-> T2030, endTime |-> T2130, slotDuration |-> 30,
    isActive |-> TRUE]}

CheckInSlots == {<<1, T0900>>, <<2, T2100>>}

CheckInTicks == {30, 17 * 60 + 30}

InitCheckIn ==
  /\ bookings = {}
  /\ windows = CheckInWindows
  /\ nextBookingId = 1
  /\ nextWindowId = 3
  /\ now = StartNow
  /\ ticks = 0
  /\ tz \in Zones
  /\ req = [c \in Conns |-> Idle]

NextCheckIn ==
  \/ \E c \in Conns, s \in CheckInSlots : createBooking(c, s[1], s[2])
  \/ \E c \in Conns, r \in Refs : checkInBooking(c, r)
  \/ \E c \in Conns, id \in BookingIds : updateBookingStatus(c, id, "completed", NoReason)
  \/ \E m \in CheckInTicks : Tick(m)
  \/ BookingSteps

SpecCheckIn == InitCheckIn /\ [][NextCheckIn]_vars

(* One administrator creating dates in bulk and deleting them while        *)
(* another edits them                                                       *)
NextBulk ==
  \/ \E ds \in BulkInputs : createBulkAvailableDates(1, ds)
  \/ \E id \in WindowIds : deleteAvailableDate(1, id)
  \/ \E c \in Conns, id \in WindowIds, pa \in WindowPatches :
       updateAvailableDate(c, id, pa[1], pa[2], pa[3], pa[4])
  \/ \E c \in Conns :
       \/ BulkInsertNext(c)
       \/ BulkRespond(c)
       \/ SaveWindow(c)
       \/ DeleteWindow(c)
       \/ Respond(c)

SpecBulk == Init /\ [][NextBulk]_vars

(* Calls of DateUtils.generateTimeSlots with every start, end and duration *)
SlotArgs ==
  {<<st, en, du>> : st \in {<<0, 0>>, <<9, 0>>, <<9, 30>>, <<23, 30>>},
                    en \in {<<0, 0>>, <<9, 0>>, <<10, 0>>, <<10, 15>>, <<23, 59>>},
                    du \in {MinSlotDuration, DefaultSlotDuration, 45, 60, MaxSlotDuration}}

InitSlots ==
  /\ bookings = {}
  /\ windows = {}
  /\ nextBookingId = 1
  /\ nextWindowId = 1
  /\ now = StartNow
  /\ ticks = 0
  /\ tz = 0
  /\ \E a \in SlotArgs :
       req = [c \in Conns |->
                IF c = 1 THEN [Idle EXCEPT !.pc = "call", !.op = "generateTimeSlots",
                                           !.patch = a]
                ELSE Idle]

GenerateSlotsCall(c) ==
  /\ req[c].pc = "call" /\ req[c].op = "generateTimeSlots"
  /\ req' = [req EXCEPT ![c].pc = "done",
                        ![c].body = DateUtils_generateTimeSlots(req[c].patch[1],
                                                                req[c].patch[2],
                                                                req[c].patch[3])]
  /\ UNCHANGED <<bookings, windows, nextBookingId, nextWindowId, now, ticks, tz>>

NextSlots ==
  \E c \in Conns :
    \/ GenerateSlotsCall(c)
    \/ Respond(c)

SpecSlots == InitSlots /\ [][NextSlots]_vars

(* Creates in a store that already holds the bookings made earlier in the  *)
(* current minute: none, one, 998 or 999 of them                            *)
SlotsPerDay == MinutesPerDay \div MinSlotDuration

BusyDates == 10..(10 + (MaxRefCounter - 1) \div SlotsPerDay)

BusyWindows ==
  {[id |-> d, date |-> d, startTime |-> 0, endTime |-> MinutesPerDay - 1,
    slotDuration |-> MinSlotDuration, isActive |-> TRUE] : d \in BusyDates}

EarlierBooking(n) ==
  [id |-> 1000 + n,
   date |-> 10 + (n - 1) \div SlotsPerDay,
   timeSlot |-> ((n - 1) % SlotsPerDay) * MinSlotDuration,
   status |-> "confirmed",
   bookingReference |-> <<StartNow \div MinutesPerDay, StartNow % MinutesPerDay, n>>,
   cancelledAt |-> NoTime, cancellationReason |-> NoReason, checkedInAt |-> NoTime]

EarlierCounts == {0, 1, MaxRefCounter - 1, MaxRefCounter}

InitRefs ==
  /\ \E k \in EarlierCounts : bookings = {EarlierBooking(n) : n \in 1..k}
  /\ windows = SeedWindows \cup BusyWindows
  /\ nextBookingId = 1
  /\ nextWindowId = 3
  /\ now = StartNow
  /\ ticks = 0
  /\ tz = 0
  /\ req = [c \in Conns |-> Idle]

NextRefs ==
  \/ \E c \in Conns, d \in Dates, t \in TimeSlots : createBooking(c, d, t)
  \/ Tick(1)
  \/ \E c \in Conns :
       \/ PreSaveNew(c)
       \/ InsertBooking(c)
       \/ Respond(c)

SpecRefs == InitRefs /\ [][NextRefs]_vars

(* Creates for yesterday, today, tomorrow and a far date, early and late   *)
(* in the day, on servers west of, at and east of UTC                       *)
T0400 == 4 * 60
T2230 == 22 * 60 + 30

AllZones == Zones \cup {5 * 60}

CreateDates == {0, 1, 2, FarDate}

CreateTimes == {T0400, T0900, T2230}

DayWindows ==
  {[id |-> d + 1, date |-> d, startTime |-> 0, endTime |-> MinutesPerDay - 1,
    slotDuration |-> DefaultSlotDuration, isActive |-> TRUE] : d \in CreateDates}

InitCreate ==
  /\ bookings = {}
  /\ windows = DayWindows
  /\ nextBookingId = 1
  /\ nextWindowId = FarDate + 2
  /\ now \in {StartNow, MinutesPerDay + T2230 - 30}
  /\ ticks = 0
  /\ tz \in AllZones
  /\ req = [c \in Conns |-> Idle]

NextCreate ==
  \/ \E c \in Conns, d \in CreateDates, t \in CreateTimes : createBooking(c, d, t)
  \/ Tick(30)
  \/ \E c \in Conns :
       \/ PreSaveNew(c)
       \/ InsertBooking(c)
       \/ Respond(c)

SpecCreate == InitCreate /\ [][NextCreate]_vars

-----------------------------------------------------------------------------
(* The views: two seeded windows, one whose range is not a multiple of its *)
(* slot length; bookings are created and change status while the slot,     *)
(* calendar, next-slot and timings views and the two checks are asked.     *)

T1015 == 10 * 60 + 15

(* a date beyond the look-ahead of the next-slot view *)
LateDate == LookAheadDays + 10

ViewWindows ==
  {[id |-> 1, date |-> 1, startTime |-> T0900, endTime |-> T1015,
    slotDuration |-> DefaultSlotDuration, isActive |-> TRUE],
   [id |-> 2, date |-> 2, startTime |-> T0900, endTime |-> T1000,
    slotDuration |-> DefaultSlotDuration, isActive |-> TRUE],
   [id |-> 3, date |-> LateDate, startTime |-> T0900, endTime |-> T1000,
    slotDuration |-> DefaultSlotDuration, isActive |-> TRUE]}

ViewSlots == {T0900, T0930, T1000}
ViewDates == {0, 1, 2, 3}
MonthDays == {1, 2, 3}
ViewCounts == {1, 2, 5}
ViewClocks == {StartNow, MinutesPerDay + 9 * 60 + 15, 2 * MinutesPerDay + 2 * 60}

InitViews ==
  /\ bookings = {}
  /\ windows = ViewWindows
  /\ nextBookingId = 1
  /\ nextWindowId = 4
  /\ now \in ViewClocks
  /\ ticks = 0
  /\ tz \in Zones
  /\ req = [c \in Conns |-> Idle]

NextViews ==
  \/ \E c \in Conns, d \in Dates, t \in ViewSlots : createBooking(c, d, t)
  \/ \E c \in Conns, id \in 1..MaxBookings, s \in {"cancelled", "completed"} :
       updateBookingStatus(c, id, s, NoReason)
  \/ \E c \in Conns, d \in ViewDates : getAvailableSlots(c, d)
  \/ \E c \in Conns : getCalendar(c, MonthDays)
  \/ \E c \in Conns, n \in ViewCounts, from \in {NoTime, 1, 2} : getNextAvailableSlots(c, n, from)
  \/ \E c \in Conns : getAvailableDatesWithTimings(c)
  \/ \E c \in Conns :
       \/ PreSaveNew(c)
       \/ InsertBooking(c)
       \/ SaveBooking(c)
       \/ Respond(c)

SpecViews == InitViews /\ [][NextViews]_vars

-----------------------------------------------------------------------------
(* The checks before a booking: the customer asks whether a slot is free,  *)
(* or has the booking data validated, between creates and cancellations;   *)
(* a date beyond the booking horizon is open as well.                      *)

CheckDates == {0} \cup Dates \cup {FarDate}
CheckSlots == TimeSlots \cup {T0800}

NextCheck ==
  \/ \E c \in Conns, d \in Dates \cup {FarDate}, t \in TimeSlots : createBooking(c, d, t)
  \/ \E c \in Conns, r \in Refs : cancelBooking(c, r, NoReason)
  \/ \E c \in Conns, d \in CheckDates, t \in CheckSlots : checkSlotAvailability(c, d, t)
  \/ \E c \in Conns, d \in CheckDates, t \in CheckSlots : validateBookingData(c, d, t)
  \/ BookingSteps

SpecCheck == InitFar /\ [][NextCheck]_vars

-----------------------------------------------------------------------------
(* Vocabulary of the properties *)

CreateOps == {"createBooking", "createSimpleBooking"}

RowsAt(S, date, timeSlot) == {b \in S : b.date = date /\ b.timeSlot = timeSlot}

LiveRowsAt(S, date, timeSlot) == {b \in RowsAt(S, date, timeSlot) : b.status # "cancelled"}

(* the date, the time and the window checks of a create accept the slot *)
SlotOpen(date, timeSlot) ==
  /\ date >= getCurrentDate
  /\ (date = getCurrentDate => timeSlot > getCurrentTime)
  /\ \E w \in windows :
       w.date = date /\ w.isActive /\ isValidTimeSlot(w, timeSlot)

(* responses of the Conflict kind *)
ConflictMsgs ==
  {MsgBooked, "New time slot is already booked", "Booking reference already exists",
   "Please select another date to continue", "Please select another date",
   "Duplicate field value: date"}

IsConflict(res) == res.code \in {400, 409} /\ res.msg \in ConflictMsgs

(* connection c ends its request in this step *)
Ends(c) == req[c].pc # "done" /\ req'[c].pc = "done"

-----------------------------------------------------------------------------
(* C1: of the create requests for one (date, timeSlot), racing or in        *)
(* sequence, one succeeds and every other fails with a conflict error.  In  *)
(* every step that ends a create: a success found no non-cancelled booking  *)
(* at the slot and leaves exactly one booking there; a create that finds a  *)
(* non-cancelled booking at an open slot ends with a conflict error; a      *)
(* create that fails leaves the bookings as they were; and an insert that   *)
(* finds neither the slot nor its reference taken succeeds.                 *)
C1_OneCreateWins ==
  [][\A c \in Conns :
       (Ends(c) /\ req'[c].op \in CreateOps) =>
         LET d == req'[c].date
             t == req'[c].timeSlot
             res == req'[c].res
         IN  /\ res.code = 201 =>
                  /\ LiveRowsAt(bookings, d, t) = {}
                  /\ Cardinality(RowsAt(bookings', d, t)) = 1
                  /\ \E b \in bookings' \ bookings :
                       b.id = req'[c].bid /\ b.status = "confirmed"
             /\ (LiveRowsAt(bookings, d, t) # {} /\ SlotOpen(d, t)) =>
                  IsConflict(res)
             /\ res.code # 201 => bookings' = bookings
             /\ (req[c].pc = "insert" /\ RowsAt(bookings, d, t) = {}
                   /\ ~RefInUse(req[c].ref)) => res.code = 201
    ]_vars

(* the loser of a race: its insert is refused by the index while the        *)
(* winner's booking stands                                                  *)
C1_Witness ==
  \E c \in Conns :
    /\ req[c].pc = "done" /\ req[c].op \in CreateOps
    /\ req[c].res.code = 400 /\ IsConflict(req[c].res)
    /\ \E b \in RowsAt(bookings, req[c].date, req[c].timeSlot) : b.status = "confirmed"

-----------------------------------------------------------------------------
(* C3: after the booking at (date, timeSlot) is cancelled, a create for     *)
(* that slot, still open, succeeds and stores a new non-cancelled booking.  *)
(* Stated of the insert of a create that finds only cancelled bookings at   *)
(* its slot and its own reference unused.                                   *)
C3_CreateAfterCancel ==
  [][\A c \in Conns :
       (/\ req[c].pc = "insert" /\ Ends(c)
        /\ SlotOpen(req[c].date, req[c].timeSlot)
        /\ RowsAt(bookings, req[c].date, req[c].timeSlot) # {}
        /\ LiveRowsAt(bookings, req[c].date, req[c].timeSlot) = {}
        /\ ~RefInUse(req[c].ref))
       => /\ req'[c].res.code = 201
          /\ LiveRowsAt(bookings', req[c].date, req[c].timeSlot) # {}
    ]_vars

-----------------------------------------------------------------------------
(* C2: in every reachable state each (date, timeSlot) has at most one       *)
(* booking whose status is not cancelled, whatever the interleaving of      *)
(* create, simple create, reschedule, customer cancel, admin status update, *)
(* admin delete and bulk update.                                            *)
C2_AtMostOneLive ==
  \A d \in Dates, t \in TimeSlots : Cardinality(LiveRowsAt(bookings, d, t)) <= 1

(* a request for a slot was refused by the index while a booking that is    *)
(* not cancelled holds the slot and a second booking exists                 *)
C2_Witness ==
  \E c \in Conns :
    /\ req[c].pc = "done" /\ req[c].res = Resp(400, MsgBooked)
    /\ Cardinality(bookings) = 2
    /\ \E d \in Dates, t \in TimeSlots : Cardinality(LiveRowsAt(bookings, d, t)) = 1

-----------------------------------------------------------------------------
(* C7: no operation removes a booking record: every stored booking id is    *)
(* still stored after every step, and when an admin delete has answered     *)
(* with success its booking is stored with status cancelled.                *)
C7_NeverRemoved ==
  [][/\ \A b \in bookings : \E b2 \in bookings' : b2.id = b.id
     /\ \A c \in Conns :
          (req[c].op = "deleteBooking" /\ Ends(c) /\ req'[c].res.code = 200) =>
            \E b2 \in bookings' : b2.id = req[c].bid /\ b2.status = "cancelled"
    ]_vars

-----------------------------------------------------------------------------
(* C5: at most one window exists per date in every reachable state, under   *)
(* concurrent single and bulk creates; a create for a date that already     *)
(* has a window fails, with a conflict error when the request is otherwise  *)
(* valid, and leaves the windows unchanged; a bulk create is refused whole  *)
(* when one of its dates has a window at its start, and records as an error *)
(* each date that has got a window by the time of its insert.               *)
WindowsOn(S, date) == {w \in S : w.date = date}

ValidShape(w) ==
  /\ w.slotDuration >= MinSlotDuration /\ w.slotDuration <= MaxSlotDuration
  /\ w.startTime < w.endTime
  /\ w.endTime - w.startTime >= w.slotDuration

C5_OneWindowPerDate ==
  /\ [](\A w1 \in windows, w2 \in windows : w1.date = w2.date => w1 = w2)
  /\ [][\A c \in Conns :
          /\ (Ends(c) /\ req'[c].op = "createAvailableDate"
                /\ WindowsOn(windows, req'[c].date) # {}) =>
               /\ req'[c].res.code # 201
               /\ windows' = windows
               /\ (req[c].pc = "idle" \/ ValidShape(req[c].win)) => IsConflict(req'[c].res)
          /\ (req[c].pc = "idle" /\ req'[c].op = "createBulkAvailableDates"
                /\ \E i \in 1..Len(req'[c].items) :
                     WindowsOn(windows, req'[c].items[i].date) # {}) =>
               /\ req'[c].pc = "done" /\ IsConflict(req'[c].res)
               /\ windows' = windows
          /\ (req[c].pc = "bulkInsert" /\ req'[c] # req[c] /\ req[c].items # <<>>
                /\ WindowsOn(windows, Head(req[c].items).date) # {}) =>
               /\ windows' = windows
               /\ req'[c].errors = Append(req[c].errors,
                                          [date |-> Head(req[c].items).date,
                                           reason |-> MsgE11000])
               /\ req'[c].created = req[c].created
      ]_vars

(* the loser of two racing creates for one date: refused by the index,      *)
(* while the winner's window stands                                         *)
C5_Witness ==
  \E c \in Conns :
    /\ req[c].pc = "done" /\ req[c].op = "createAvailableDate"
    /\ req[c].res = Resp(400, "Duplicate field value: date")
    /\ Cardinality(WindowsOn(windows, req[c].date)) = 1

-----------------------------------------------------------------------------
(* C4: in every reachable state the date of each booking that is not        *)
(* cancelled has a window whose generated grid contains the booking's       *)
(* timeSlot, also when a window update or delete interleaves with a create  *)
(* or a reschedule and after an admin status change.                        *)
C4_LiveBookingInGrid ==
  \A b \in bookings :
    b.status # "cancelled" =>
      \E w \in windows : w.date = b.date /\ isValidTimeSlot(w, b.timeSlot)

-----------------------------------------------------------------------------
(* C6: once the status of a booking is cancelled or completed no operation  *)
(* changes it to a different value: no step takes a stored booking from     *)
(* cancelled or completed to another status.                                *)
TerminalStatuses == {"cancelled", "completed"}

C6_TerminalStatusKept ==
  [][\A b \in bookings :
       b.status \in TerminalStatuses =>
         \A b2 \in bookings' : b2.id = b.id => b2.status = b.status
    ]_vars

-----------------------------------------------------------------------------
(* C10: cancel, reschedule and check-in by the customer, on a booking that  *)
(* they find cancelled or completed, each answer with an error and leave    *)
(* every field of the booking unchanged: the request ends in the step that  *)
(* read the booking, with an error status, and no write follows.            *)
CustomerOps == {"cancelBooking", "rescheduleBooking", "checkInBooking"}

C10_TerminalRefused ==
  [][\A c \in Conns :
       (req[c].pc = "idle" /\ req'[c].op \in CustomerOps) =>
         \A b \in bookings :
           (b.id = req'[c].bid /\ b.status \in TerminalStatuses) =>
             /\ req'[c].pc = "done"
             /\ req'[c].res.code >= 400
             /\ bookings' = bookings
    ]_vars

(* a reschedule of a completed booking has been refused *)
C10_Witness ==
  \E c \in Conns :
    /\ req[c].pc = "done" /\ req[c].op = "rescheduleBooking"
    /\ req[c].res = Resp(400, "Cannot reschedule completed booking")
    /\ \E b \in bookings : b.id = req[c].bid /\ b.status = "completed"

-----------------------------------------------------------------------------
(* the minutes that remain before the booking's date-time *)
MinutesUntil(b) == (b.date * MinutesPerDay + b.timeSlot - tz) - now

InRefusalWindow(b) == MinutesUntil(b) > 0 /\ MinutesUntil(b) < 2 * 60

MsgTooLate == "Cannot cancel booking within 2 hours of appointment time"

(* C8: cancel on a booking that is neither cancelled nor completed and is   *)
(* not inside the 2-hour refusal window sets status to cancelled, sets      *)
(* cancelledAt and stores the given reason; cancel on a booking already     *)
(* cancelled or completed fails with an invalid-state error and writes      *)
(* nothing.                                                                 *)
C8_CancelContract ==
  [][\A c \in Conns :
       /\ (req[c].pc = "idle" /\ req'[c].op = "cancelBooking") =>
            \A b \in bookings :
              b.id = req'[c].bid =>
                /\ b.status \in TerminalStatuses =>
                     /\ req'[c].pc = "done"
                     /\ req'[c].res \in {Resp(400, "Booking is already cancelled"),
                                         Resp(400, "Cannot cancel completed booking")}
                     /\ bookings' = bookings
                /\ (b.status \notin TerminalStatuses /\ ~InRefusalWindow(b)) =>
                     req'[c].pc = "save"
       /\ (req[c].pc = "save" /\ req[c].op = "cancelBooking" /\ req'[c] # req[c]) =>
            /\ req'[c].pc = "done" /\ req'[c].res.code = 200
            /\ \E b2 \in bookings' :
                 /\ b2.id = req[c].bid
                 /\ b2.status = "cancelled"
                 /\ b2.cancelledAt # NoTime /\ b2.cancelledAt <= now
                 /\ req[c].reason # NoReason => b2.cancellationReason = req[c].reason
    ]_vars

(* a cancel with a reason has answered: the booking is cancelled, stamped   *)
(* and carries the reason                                                   *)
C8_Witness ==
  \E c \in Conns :
    /\ req[c].pc = "done" /\ req[c].op = "cancelBooking" /\ req[c].res.code = 200
    /\ \E b \in bookings :
         /\ b.id = req[c].bid /\ b.status = "cancelled"
         /\ b.cancelledAt # NoTime /\ b.cancellationReason = "changed plans"

-----------------------------------------------------------------------------
(* C9: cancel is refused as too late, the booking unchanged, exactly when   *)
(* the booking's date-time lies in the future and fewer than 2 hours        *)
(* remain; a booking whose date-time has passed, or is 2 hours or more      *)
(* away, is not refused for this reason.                                    *)
C9_TwoHourWindow ==
  [][\A c \in Conns :
       (req[c].pc = "idle" /\ req'[c].op = "cancelBooking") =>
         \A b \in bookings :
           b.id = req'[c].bid =>
             /\ InRefusalWindow(b) =>
                  /\ req'[c].pc = "done" /\ req'[c].res.code = 400
                  /\ bookings' = bookings
                  /\ b.status \notin TerminalStatuses => req'[c].res.msg = MsgTooLate
             /\ ~InRefusalWindow(b) => req'[c].res.msg # MsgTooLate
    ]_vars

(* a cancel was refused as too late with the booking less than 2 hours away *)
C9_Witness ==
  \E c \in Conns :
    /\ req[c].pc = "done" /\ req[c].op = "cancelBooking"
    /\ req[c].res = Resp(400, MsgTooLate)
    /\ \E b \in bookings :
         b.id = req[c].bid /\ b.status = "confirmed" /\ InRefusalWindow(b)

(* the request of connection c passes the checks of op and goes on to save *)
Proceeds(c, op) == req[c].pc = "idle" /\ req'[c].pc = "save" /\ req'[c].op = op

(* createBooking's checks accept the slot when booking `id` is left out *)
CreateWouldAccept(date, timeSlot, id) ==
  /\ SlotOpen(date, timeSlot)
  /\ date <= (now \div MinutesPerDay) + MaxAdvanceBookingDays
  /\ LiveRowsAt({b \in bookings : b.id # id}, date, timeSlot) = {}

(* C11: a reschedule passes its checks for a new date and slot only if a   *)
(* create would accept that date and slot in the same state of the store,  *)
(* the rescheduled booking left out: a past date, a past slot of today, a  *)
(* date beyond the advance-booking horizon, a date without an active       *)
(* window, a slot outside the grid and a slot held by another booking that *)
(* is not cancelled are each refused.                                      *)
C11_RescheduleAsCreate ==
  [][\A c \in Conns :
       Proceeds(c, "rescheduleBooking") =>
         CreateWouldAccept(req'[c].date, req'[c].timeSlot, req'[c].bid)]_vars

(* a reschedule of connection c for booking b to the slot b already has *)
SameSlotRequest(c, b) ==
  /\ req'[c].op = "rescheduleBooking"
  /\ req'[c].bid = b.id
  /\ req'[c].date = b.date
  /\ req'[c].timeSlot = b.timeSlot

(* C12: a reschedule of a booking that is neither cancelled nor completed  *)
(* to the date and slot it already has, the slot still being open, passes  *)
(* the controller's checks with nothing to move, and its save answers 200  *)
(* and leaves the bookings as they are: the booking's own record is no     *)
(* conflict for the controller's query, the pre-save query or the index.   *)
C12_SameSlotReschedule ==
  [][\A c \in Conns :
       /\ \A b \in bookings :
            ( /\ req[c].pc = "idle"
              /\ SameSlotRequest(c, b)
              /\ b.status \notin TerminalStatuses
              /\ SlotOpen(b.date, b.timeSlot) )
            => /\ req'[c].pc = "save"
               /\ ~req'[c].modDate /\ ~req'[c].modTimeSlot
       /\ ( /\ req[c].pc = "save" /\ req[c].op = "rescheduleBooking"
            /\ ~req[c].modDate /\ ~req[c].modTimeSlot
            /\ Ends(c) )
          => /\ req'[c].res = Resp(200, "Booking rescheduled")
             /\ bookings' = bookings]_vars

C12_Witness ==
  \E c \in Conns, b \in bookings :
    /\ req[c].pc = "done" /\ req[c].op = "rescheduleBooking"
    /\ req[c].res.code = 200
    /\ ~req[c].modDate /\ ~req[c].modTimeSlot
    /\ b.id = req[c].bid /\ b.date = req[c].date /\ b.timeSlot = req[c].timeSlot
    /\ b.status = "confirmed"

(* the save of a reschedule of connection c answers 200 in this step *)
RescheduleSaved(c) ==
  /\ req[c].pc = "save" /\ req[c].op = "rescheduleBooking"
  /\ Ends(c)
  /\ req'[c].res.code = 200

AtTheDoor(b, z) ==
  /\ b.date = (now + z) \div MinutesPerDay
  /\ ((now + z) % MinutesPerDay) - b.timeSlot \in (0 - CheckInWindowMinutes)..CheckInWindowMinutes

(* C14: a check-in passes its checks only for a confirmed booking whose    *)
(* date is the current date and whose slot is at most 30 minutes from the  *)
(* current time of day, date and time read on one clock (UTC or the        *)
(* server's zone); the save of a successful check-in sets checkedInAt and  *)
(* changes nothing else, and a refused check-in leaves the bookings as     *)
(* they are.                                                               *)
C14_CheckInContract ==
  [][\A c \in Conns :
       /\ Proceeds(c, "checkInBooking") =>
            \E b \in bookings :
              /\ b.id = req'[c].bid
              /\ b.status = "confirmed"
              /\ \E z \in {0, tz} : AtTheDoor(b, z)
       /\ ( /\ req[c].pc = "save" /\ req[c].op = "checkInBooking"
            /\ Ends(c) /\ req'[c].res.code = 200 )
          => \E b \in bookings, a \in bookings' :
               /\ b.id = req[c].bid /\ a.id = b.id
               /\ a.checkedInAt # NoTime
               /\ a = [b EXCEPT !.checkedInAt = a.checkedInAt]
               /\ bookings' \ {a} = bookings \ {b}
       /\ ( /\ req'[c].op = "checkInBooking" /\ Ends(c)
            /\ req'[c].res.code # 200 )
          => bookings' = bookings]_vars

(* C15: every booking whose status is cancelled has cancelledAt set,       *)
(* whichever operation cancelled it: the customer's cancel, the            *)
(* administrator's status update with or without a reason, the             *)
(* administrator's delete or the bulk update.                              *)
C15_CancelledHasTimestamp ==
  \A b \in bookings : b.status = "cancelled" => b.cancelledAt # NoTime

(* the bookings of S for the date that are not cancelled *)
LiveRowsOn(S, date) == {b \in S : b.date = date /\ b.status # "cancelled"}

(* the request of connection c for operation op on window w starts now *)
StartsOn(c, op, w) ==
  /\ req[c].pc = "idle"
  /\ req'[c].op = op
  /\ req'[c].date = w.date

MsgTimesLocked == "Cannot modify time settings when there are existing bookings"

C17_ActiveFlagGuarded ==
  [][\A w \in windows : \A v \in windows' :
       (v.id = w.id /\ v.isActive # w.isActive) => LiveRowsOn(bookings, w.date) = {}]_vars

MsgDeleteLocked == "Cannot delete date with existing bookings. Cancel bookings first."

(* C18: a delete of a window whose date has a booking that is not          *)
(* cancelled is refused with the Forbidden message and leaves the windows  *)
(* as they are; and a window is removed only in a state in which no        *)
(* booking that is not cancelled references its date.                      *)
C18_DeleteGuarded ==
  [][/\ \A c \in Conns : \A w \in windows :
          (StartsOn(c, "deleteAvailableDate", w) /\ LiveRowsOn(bookings, w.date) # {})
          => /\ req'[c].pc = "done"
             /\ req'[c].res = Resp(400, MsgDeleteLocked)
             /\ windows' = windows
     /\ \A w \in windows :
          (\A v \in windows' : v.id # w.id) => LiveRowsOn(bookings, w.date) = {}]_vars

(* the dates of a sequence of windows or of error records *)
DatesOf(q) == {q[i].date : i \in 1..Len(q)}

(* C19: a bulk creation attempts each window of the batch on its own: when *)
(* the batch is received and the date of one of its windows has no window  *)
(* yet, the request goes on to create windows even if another date of the  *)
(* batch is taken; and when the request ends, every window of the batch    *)
(* has been attempted and the response is the per-item report.             *)
C19_BulkPerItem ==
  [][\A c \in Conns :
       /\ ( /\ req[c].pc = "idle" /\ req'[c].op = "createBulkAvailableDates"
            /\ \E d \in DatesOf(req'[c].items) : WindowsOn(windows, d) = {} )
          => req'[c].pc = "bulkInsert"
       /\ (Ends(c) /\ req'[c].op = "createBulkAvailableDates")
          => /\ req'[c].items = <<>>
             /\ req'[c].res.code = 200]_vars

(* C20: a bulk creation whose batch holds one date twice, the date having  *)
(* no window when the batch is received and no other request creating or   *)
(* deleting windows meanwhile, ends with the first occurrence created, the *)
(* second reported in errors with the duplicate-key reason, one entry in   *)
(* created, and exactly one window for the date.                           *)
C20_DuplicateInBatch ==
  [][\A c \in Conns : \A d \in Dates :
       ( /\ req[c].pc = "bulkInsert" /\ Ends(c)
         /\ Len(req[c].created) + Len(req[c].errors) = 2
         /\ DatesOf(req[c].created) \cup DatesOf(req[c].errors) = {d} )
       => /\ req'[c].res.code = 200
          /\ Len(req'[c].created) = 1
          /\ req'[c].created[1].date = d
          /\ req'[c].errors = <<[date |-> d, reason |-> MsgE11000]>>
          /\ Cardinality(WindowsOn(windows', d)) = 1]_vars

C20_Witness ==
  \E c \in Conns :
    /\ req[c].pc = "done" /\ req[c].op = "createBulkAvailableDates"
    /\ req[c].res.code = 200
    /\ Len(req[c].created) = 1 /\ req[c].created[1].date = 1
    /\ req[c].errors = <<[date |-> 1, reason |-> MsgE11000]>>
    /\ Cardinality(WindowsOn(windows, 1)) = 1

(* minutes of day of an "HH:MM" string *)
MinuteOf(str) == 60 * str[1] + str[2]

(* C21: generateTimeSlots(startTime, endTime, duration) returns exactly    *)
(* the times startTime + k * duration (k = 0, 1, 2, ...) that are strictly *)
(* less than endTime, in ascending order and without repetition, as        *)
(* "HH:MM" strings; the window's own generateTimeSlots yields the same     *)
(* times; 09:00-10:15 with 30 minutes gives 09:00, 09:30, 10:00 and a      *)
(* zero-length range gives the empty sequence.                             *)
C21_SlotGrid ==
  \A c \in Conns :
    (req[c].pc = "done" /\ req[c].op = "generateTimeSlots") =>
      LET start == MinuteOf(req[c].patch[1])
          end == MinuteOf(req[c].patch[2])
          duration == req[c].patch[3]
          slots == req[c].body
          steps == {k \in 0..MinutesPerDay : start + k * duration < end}
      IN  /\ Len(slots) = Cardinality(steps)
          /\ \A i \in 1..Len(slots) :
               /\ MinuteOf(slots[i]) = start + (i - 1) * duration
               /\ slots[i][1] \in 0..23 /\ slots[i][2] \in 0..59
          /\ \A i \in 1..Len(slots), j \in 1..Len(slots) :
               i < j => MinuteOf(slots[i]) < MinuteOf(slots[j])
          /\ (start = end => slots = <<>>)
          /\ (req[c].patch = <<(<<9, 0>>), (<<10, 15>>), 30>>
                => slots = <<(<<9, 0>>), (<<9, 30>>), (<<10, 0>>)>>)
          /\ generateTimeSlots(start, end, duration)
               = [i \in 1..Len(slots) |-> MinuteOf(slots[i])]

C21_Witness ==
  \E c \in Conns :
    /\ req[c].pc = "done" /\ req[c].op = "generateTimeSlots"
    /\ req[c].patch = <<(<<9, 0>>), (<<10, 15>>), 30>>
    /\ Len(req[c].body) = 3

(* the reference is the bookingReference of a booking of S *)
RefUsed(S, ref) == \E b \in S : b.bookingReference = ref

(* connection c generates the reference of its new booking in this step *)
Generates(c) == req[c].pc = "presave" /\ req'[c].pc = "insert"

(* connection c stores its new booking in this step *)
Inserts(c) == req[c].pc = "insert" /\ req'[c].pc = "done" /\ req'[c].res.code = 201

C23_ExhaustedSequence ==
  [][\A c \in Conns :
       /\ Generates(c) => ~RefUsed(bookings, req'[c].ref)
       /\ ( /\ req[c].pc = "presave" /\ req'[c].pc # "presave"
            /\ \A k \in 1..MaxRefCounter :
                 RefUsed(bookings, <<now \div MinutesPerDay, (now + tz) % MinutesPerDay, k>>) )
          => /\ req'[c].pc = "done"
             /\ req'[c].res.code >= 400
             /\ bookings' = bookings]_vars

(* C24: no two stored bookings have the same bookingReference, also when   *)
(* creates for different slots generate their references in the same       *)
(* minute before either has saved.                                         *)
C24_UniqueReferences ==
  \A a \in bookings, b \in bookings :
    a.bookingReference = b.bookingReference => a = b

(* the loser of two creates that generated the same reference *)
C24_Witness ==
  \E c \in Conns, b \in bookings :
    /\ req[c].pc = "done" /\ req[c].op = "createBooking"
    /\ req[c].res = Resp(400, "Booking reference already exists")
    /\ b.id < 1000
    /\ LiveRowsAt(bookings, req[c].date, req[c].timeSlot) = {}

(* on a clock of zone z the date is before today, beyond the horizon, or   *)
(* today with the slot already past                                        *)
MustBeRefused(date, timeSlot, z) ==
  LET today == (now + z) \div MinutesPerDay
      timeOfDay == (now + z) % MinutesPerDay
  IN  \/ date < today
      \/ date > today + MaxAdvanceBookingDays
      \/ date = today /\ timeSlot < timeOfDay

-----------------------------------------------------------------------------
SlotTaken(date, slot) ==
  \E b \in bookings : b.date = date /\ b.timeSlot = slot /\ b.status # "cancelled"

SlotViewAnswered(c) ==
  req[c].pc = "done" /\ req[c].op = "getAvailableSlots" /\ req[c].res.code = 200

(* C26: the slot view of a date answers with one entry for every slot of   *)
(* the date's full grid, in grid order, the past slots of today included    *)
(* and marked isPast; an entry is isBooked exactly when a non-cancelled     *)
(* booking holds (date, slot), and available is the negation of isBooked.   *)
C26_SlotsForDate ==
  \A c \in Conns : SlotViewAnswered(c) =>
    LET w == ActiveWindow(req[c].date)
        grid == SlotsFrom(w.startTime, w.endTime, w.slotDuration)
        slots == req[c].body
    IN  /\ Len(slots) = Len(grid)
        /\ \A i \in 1..Len(slots) :
             /\ slots[i].time = grid[i]
             /\ slots[i].isBooked <=> SlotTaken(req[c].date, grid[i])
             /\ slots[i].available <=> ~slots[i].isBooked
             /\ slots[i].isPast <=>
                  (isToday(req[c].date) /\ isPastTimeSlot(req[c].date, grid[i]))

-----------------------------------------------------------------------------
CalendarAnswered(c) ==
  req[c].pc = "done" /\ req[c].op = "getCalendar" /\ req[c].res.code = 200

GridOf(date) ==
  Range(SlotsFrom(ActiveWindow(date).startTime, ActiveWindow(date).endTime,
                  ActiveWindow(date).slotDuration))

DayCounted(day) ==
  LET grid == GridOf(day.date)
      taken == {t \in grid : SlotTaken(day.date, t)}
  IN  /\ day.totalSlots = Cardinality(grid)
      /\ day.bookedSlots = Cardinality(taken)
      /\ day.availableSlots = day.totalSlots - day.bookedSlots
      /\ day.availableSlots >= 0
      /\ day.isFullyBooked <=> (taken = grid)

(* C27: in the calendar of a month, every day with an active window has    *)
(* totalSlots equal to the number of slots of the window's grid,            *)
(* bookedSlots equal to the number of grid slots that hold a non-cancelled  *)
(* booking, availableSlots = totalSlots - bookedSlots and never negative,   *)
(* and isFullyBooked exactly when every slot of the grid is taken.          *)
C27_CalendarCounts ==
  \A c \in Conns : CalendarAnswered(c) =>
    \A d \in DOMAIN req[c].body :
      /\ req[c].body[d].isAvailable <=> (ActiveWindows(d) # {})
      /\ req[c].body[d].isAvailable => DayCounted(req[c].body[d])

-----------------------------------------------------------------------------
(* the slot (date, timeSlot) is past on the clock of zone z *)
PastOn(date, timeSlot, z) ==
  \/ date < (now + z) \div MinutesPerDay
  \/ date = (now + z) \div MinutesPerDay /\ timeSlot <= (now + z) % MinutesPerDay

(* the open slots from startDate to the end of the look-ahead, on clock z *)
OpenSlots(startDate, z) ==
  {q \in {[date |-> w.date, timeSlot |-> t] : w \in windows, t \in ViewSlots} :
     /\ ActiveWindows(q.date) # {}
     /\ q.timeSlot \in GridOf(q.date)
     /\ q.date >= startDate
     /\ q.date <= (now + z) \div MinutesPerDay + LookAheadDays
     /\ ~SlotTaken(q.date, q.timeSlot)
     /\ ~PastOn(q.date, q.timeSlot, z)}

Earlier(p, q) == p.date < q.date \/ (p.date = q.date /\ p.timeSlot < q.timeSlot)

(* `found` lists, in ascending order, the first `count` members of `open` *)
FirstOpen(found, count, open) ==
  /\ \A i \in 1..Len(found) : found[i] \in open
  /\ \A i \in 1..Len(found) - 1 : Earlier(found[i], found[i + 1])
  /\ \A q \in open : q \in Range(found) \/ \A i \in 1..Len(found) : Earlier(found[i], q)
  /\ Len(found) = IF Cardinality(open) < count THEN Cardinality(open) ELSE count

NextSlotsAnswered(c) == req[c].pc = "done" /\ req[c].op = "getNextAvailableSlots"

(* C28: the next-slot view answers with success and, in ascending (date,    *)
(* time) order, the first `count` slots from fromDate to the end of the     *)
(* look-ahead that lie in the grid of an active window, hold no              *)
(* non-cancelled booking and are not past; when fewer than `count` exist it  *)
(* answers with all of them.  Past is read on one clock, UTC or the          *)
(* server's zone.                                                            *)
C28_NextAvailableSlots ==
  \A c \in Conns : NextSlotsAnswered(c) =>
    /\ req[c].res.code = 200
    /\ \E z \in {0, tz} :
         FirstOpen(req[c].body, req[c].patch[1], OpenSlots(req[c].date, z))

-----------------------------------------------------------------------------
(* the step in which connection c answers a check of a slot while no other *)
(* request is in progress                                                  *)
ChecksAlone(c, op) ==
  /\ req[c].pc = "idle" /\ req'[c].pc = "done" /\ req'[c].op = op
  /\ \A k \in Conns \ {c} : req[k].pc = "idle"

(* C29: when checkSlotAvailability answers available: true, or             *)
(* validateBookingData answers isValid: true, and nothing else happens in   *)
(* between, a create for the same (date, timeSlot) succeeds; so it does     *)
(* when the only earlier booking at the slot is cancelled.                  *)
C29_CheckThenCreate ==
  [][\A c \in Conns :
       /\ (ChecksAlone(c, "checkSlotAvailability") /\ req'[c].body.available)
            => CreateOutcome(req'[c].date, req'[c].timeSlot).code = 201
       /\ (ChecksAlone(c, "validateBookingData") /\ req'[c].body.isValid)
            => CreateOutcome(req'[c].date, req'[c].timeSlot).code = 201]_vars

-----------------------------------------------------------------------------
TimingsAnswered(c) ==
  req[c].pc = "done" /\ req[c].op = "getAvailableDatesWithTimings" /\ req[c].res.code = 200

(* C30: the administrator's timings view and the customer-facing checks     *)
(* agree on which slots are occupied: an entry of the view is isBooked       *)
(* exactly when the conflict query of create and of the customer slot view   *)
(* finds a non-cancelled booking at (date, slot), a completed or no-show     *)
(* booking included.                                                         *)
C30_SameOccupancy ==
  \A c \in Conns : TimingsAnswered(c) =>
    \A d \in DOMAIN req[c].body :
      \A i \in 1..Len(req[c].body[d]) :
        /\ req[c].body[d][i].isBooked <=> (LiveAt(d, req[c].body[d][i].time, 0) # {})
        /\ req[c].body[d][i].isBooked <=> (req[c].body[d][i].time \in bookedSlots(d))

-----------------------------------------------------------------------------
====
